---- MODULE Spec2Model ----
(***************************************************************************)
(* The training / synchronisation loops of hivetrain/training_manager.py:  *)
(* TrainingLoop.train, DeltaLoop.train, MNISTTrain.train and               *)
(* MNISTDeltaTrain.train, as one state machine selected by `variant`.      *)
(*                                                                         *)
(* LocalTrainingLoop and LocalDeltaLoop define no train of their own and   *)
(* run TrainingLoop.train and DeltaLoop.train.  MNISTDeltaTrainHugging is  *)
(* not a variant of the machine: its __init__ (lines 175-176) calls        *)
(* TrainingLoop.__init__ without the three required arguments, so no       *)
(* instance of it is ever constructed.                                     *)
(*                                                                         *)
(* Tensors live in `heap`, a map from addresses <<kind, name>> to values,  *)
(* so that a dictionary of tensors (base_weights, aggregated_gradients) is *)
(* a map from parameter names to addresses and aliasing is expressible.    *)
(* Values are integers: a gradient k stands for k * 0.1, which makes the   *)
(* clip threshold 0.1 of MNISTTrain the integer 1.                         *)
(*                                                                         *)
(* Spec is the machine of train.  TestSpec is the evaluator, test, called  *)
(* on a constructed MNISTTrain object over every test_loader within the    *)
(* bounds; its floats are exact fractions.                                 *)
(***************************************************************************)
EXTENDS Integers, Sequences, FiniteSets, TLC

VARIABLES
    variant,                \* the class whose train runs
    epochs, n_steps,        \* arguments of train
    send_interval,          \* self.send_interval
    check_update_interval,  \* self.check_update_interval
    set_to_none,            \* the default of Optimizer.zero_grad in the installed torch
    batch_sizes,            \* self.data_loader: the sizes its batches can have
    pc,                     \* position of train
    epoch, step,            \* loop indices (epoch, step / batch_idx)
    step_counter,           \* step_counter of the MNIST variants
    now,                    \* the wall clock read by time.time()
    last_send_time,         \* self.last_send_time
    last_pull_time,         \* self.last_pull_time
    attrs,                  \* the attributes of self assigned so far
    model,                  \* self.model: [gen, names]
    heap,                   \* tensor storage: address -> value
    base_weights,           \* self.base_weights: name -> address
    aggregated_gradients,   \* self.aggregated_gradients: name -> address
    optimizer,              \* self.optimizer: [cls, lr, gen]
    training,               \* self.model.training
    pulls,                  \* number of model replacements so far
    exc,                    \* the exception that left train, or "none"
    push_log,               \* history: the push check of the last loop iteration
    pull_log,               \* history: the pull check since the last push check
    installed,              \* history: parameters of the live model when installed
    grad_sum,               \* history (accumulation variants): the sum of the gradients
                            \* backward produced, per name
    clipped,                \* history: some gradient was scaled by normalize_gradients
    test_counter,           \* test_counter of the MNIST variants
    total_examples,         \* total_examples of the current epoch
    pushed,                 \* history: a push of this run was published
    test_loader,            \* self.test_loader: the batches test iterates over
    batch_idx,              \* test: the number of batches consumed
    test_loss,              \* test: test_loss, a rational
    correct_predictions,    \* test: correct_predictions
    total_test_samples,     \* test: total_test_samples
    test_result,            \* test: the returned (average_test_loss, accuracy)
    model_hash,             \* the digest the last calculate_model_hash returned
    hashed,                 \* history: the model that call was made on
    parameter,              \* normalize_gradients: the gradient it was called on
    threshold,              \* normalize_gradients: its threshold
    normalized              \* normalize_gradients: the gradient it returned

vars == <<variant, epochs, n_steps, send_interval, check_update_interval,
          set_to_none, batch_sizes, pc, epoch, step, step_counter, now, last_send_time,
          last_pull_time, attrs, model, heap, base_weights,
          aggregated_gradients, optimizer, training, pulls, exc, push_log,
          pull_log, installed, grad_sum, clipped, test_counter, pushed,
          total_examples, test_loader, batch_idx, test_loss, correct_predictions,
          total_test_samples, test_result, model_hash, hashed,
          parameter, threshold, normalized>>

\* the state of a call of test
testvars == <<test_loader, batch_idx, test_loss, correct_predictions,
              total_test_samples, test_result>>

\* the state of the calls of calculate_model_hash
hashvars == <<model_hash, hashed>>

\* the state of the calls of normalize_gradients on its own
clipvars == <<parameter, threshold, normalized>>

cfgvars == <<variant, epochs, n_steps, send_interval, check_update_interval,
             set_to_none, batch_sizes>>

(***************************************************************************)
(* Bounds of the model.                                                    *)
(***************************************************************************)
MaxEpochs == 2
NumBatches == 2
MaxNSteps == 2
MaxInterval == 2
MaxTicks == 2
MaxPulls == 1
MaxTestBatches == 2
MaxBatchSize == 2
MaxGradient == 8
MaxThreshold == 3

(***************************************************************************)
(* Program constants.                                                      *)
(***************************************************************************)
ClipThreshold == 1

\* time.time() at construction: seconds since 1970, far above any interval,
\* so the first pull check of a fresh object (last_pull_time = 0) is due.
StartTime == MaxInterval + 2
MaxTime == StartTime + MaxTicks

Variants == {"TrainingLoop", "DeltaLoop", "MNISTTrain", "MNISTDeltaTrain"}
RemoteSync == {"TrainingLoop", "DeltaLoop"}
DeltaVariants == {"DeltaLoop", "MNISTDeltaTrain"}
AccumVariants == {"TrainingLoop", "MNISTTrain"}
MNISTVariants == {"MNISTTrain", "MNISTDeltaTrain"}

\* Parameter names in named_parameters() order, and the structures a model
\* handed back by hf_manager.update_model may have.
NameOrder == <<"w", "b">>
InitNames == {"w"}
NameSets == {{"w"}, {"w", "b"}}
AllNames == {"w", "b"}
\* the weights of a model just built: one abstract initialisation
InitValues == {0}
\* the weights of an averaged model handed back by the gateway
AveragedValues == {5, 7}
Grads == {1, 2}
\* the counts a batch adds to total_examples: len(data),
\* batch["input_ids"].size(0).  A torch DataLoader over a dataset yields
\* batches of at least one example; an iterable whose collation drops
\* examples can yield a batch without any.
DataLoaderSizes == {1}
BatchSizes == {0, 1}

Abs(x) == IF x < 0 THEN -x ELSE x

\* ---- tensor storage ----
P(n) == <<"param", n>>
Store(h, upd) ==
    [a \in DOMAIN h \cup DOMAIN upd |-> IF a \in DOMAIN upd THEN upd[a] ELSE h[a]]
Drop(h, S) == [a \in DOMAIN h \ S |-> h[a]]
EmptyMap == [n \in {} |-> 0]

\* every nn.Parameter of a freshly built or loaded model requires grad
requires_grad(n) == TRUE
Trainable(m) == {n \in m.names : requires_grad(n)}

\* the values of the live model's parameters
ParamValues == [n \in model.names |-> heap[P(n)]]

\* ---- BaselineTracker: base_weights = {name: param.clone() ...} ----
\* param.clone() returns a tensor with storage of its own
clone_aliased(n) == P(n)
clone(n) == <<"base", n>>

BaseAddrs == {<<"base", n>> : n \in AllNames}

snapshot_of_zeros(m, h, bw) ==
    [bw   |-> [n \in m.names |-> clone(n)],
     heap |-> Store(Drop(h, BaseAddrs \ {clone(n) : n \in m.names}),
                    [a \in {clone(n) : n \in m.names} |-> 0])]
\* {name: param.clone() for name, param in self.model.named_parameters()}
snapshot(m, h, bw) ==
    [bw   |-> [n \in m.names |-> clone(n)],
     heap |-> Store(Drop(h, BaseAddrs \ {clone(n) : n \in m.names}),
                    [a \in {clone(n) : n \in m.names} |-> h[P(a[2])]])]

rebase_skipped(m, h, bw) == [bw |-> bw, heap |-> h]
\* the baseline taken right after a pull replaced the model
rebase(m, h, bw) == snapshot(m, h, bw)

\* the values base_weights refers to
BaseValues == [n \in DOMAIN base_weights |-> heap[base_weights[n]]]

\* ---- GradientAccumulator ----
A(n) == <<"agg", n>>
\* {name: torch.zeros_like(param) ... if param.requires_grad}
zeros_like(m, h) ==
    [ag   |-> [n \in Trainable(m) |-> A(n)],
     heap |-> Store(h, [a \in {A(n) : n \in Trainable(m)} |-> 0])]

AggValues == [n \in DOMAIN aggregated_gradients |-> heap[aggregated_gradients[n]]]

\* a model object whose parameters all hold v
install(h, names, v) ==
    Store(Drop(h, {P(n) : n \in AllNames}), [a \in {P(n) : n \in names} |-> v])

NoPush == [outcome |-> "none", artifact |-> "none", file |-> "none", base_ok |-> TRUE]
NoPull == [polled |-> FALSE, due |-> FALSE, new |-> FALSE]

NoExc == [at |-> "none", what |-> "none"]
NoDigest == <<>>
NoTensor == [k |-> "none", v |-> 0]
NoModel == [gen |-> -1, params |-> EmptyMap]

\* ---- rationals: the floats of test, exactly ----
Zero == [num |-> 0, den |-> 1]
Frac(a, b) == [num |-> a, den |-> b]
RAdd(x, y) == [num |-> x.num * y.den + y.num * x.den, den |-> x.den * y.den]
RDiv(x, k) == [num |-> x.num, den |-> x.den * k]
REq(x, y) == x.num * y.den = y.num * x.den

\* ---- construction ----
\* the attributes __init__ assigns (of those the model tracks)
init_attrs(v) ==
    CASE v \in RemoteSync -> {"last_pull_time", "check_update_interval"}
      [] v = "MNISTTrain" -> {}
      [] v = "MNISTDeltaTrain" -> {"last_send_time"}

\* the object after __init__, and train not yet called
Constructed ==
    /\ variant \in Variants
    /\ epochs \in 1 .. MaxEpochs
    \* n_steps is an argument of the MNIST variants' train only
    /\ n_steps \in (IF variant \in MNISTVariants THEN 1 .. MaxNSteps ELSE {1})
    /\ send_interval \in 1 .. MaxInterval
    \* the MNIST variants' __init__ takes and keeps no check_update_interval
    /\ check_update_interval \in
           (IF variant \in RemoteSync THEN 1 .. MaxInterval ELSE {0})
    \* only MNISTTrain.train reads param.grad after a zero_grad
    /\ set_to_none \in (IF variant = "MNISTTrain" THEN BOOLEAN ELSE {TRUE})
    /\ pc = "constructed"
    /\ epoch = 0
    /\ step = 0
    /\ step_counter = 0
    /\ now = StartTime
    /\ last_send_time = (IF variant = "MNISTDeltaTrain" THEN StartTime ELSE 0)
    /\ last_pull_time = 0
    /\ attrs = init_attrs(variant)
    /\ model = [gen |-> 0, names |-> InitNames]
    /\ \E v \in InitValues :
        /\ heap = install(EmptyMap, InitNames, v)
        /\ installed = [n \in InitNames |-> v]
    /\ base_weights = EmptyMap
    /\ aggregated_gradients = EmptyMap
    /\ optimizer = [cls |-> IF variant \in RemoteSync THEN "AdamW" ELSE "SGD",
                    lr |-> "learning_rate", gen |-> 0, t |-> 0]
    /\ training = TRUE
    /\ pulls = 0
    /\ exc = NoExc
    /\ push_log = NoPush
    /\ pull_log = NoPull
    /\ grad_sum = [n \in AllNames |-> 0]
    /\ clipped = FALSE
    /\ test_counter = 0
    /\ pushed = FALSE
    /\ total_examples = 0
    /\ model_hash = NoDigest
    /\ hashed = NoModel

\* no call of test is in progress
TestIdle ==
    /\ test_loader = <<>>
    /\ batch_idx = 0
    /\ test_loss = Zero
    /\ correct_predictions = 0
    /\ total_test_samples = 0
    /\ test_result = <<>>

\* no call of normalize_gradients on its own has been made
ClipIdle ==
    /\ parameter = NoTensor
    /\ threshold = 0
    /\ normalized = NoTensor

Init == Constructed /\ TestIdle /\ ClipIdle /\ batch_sizes = DataLoaderSizes

Live == pc \notin {"returned", "raised"}

\* The clock advances while train runs.  train reads it in the pull check
\* and in the push check only, so letting it advance right before those two
\* reads produces every sequence of readings.
Tick ==
    /\ pc \in {"pull", "push"}
    /\ now < MaxTime
    /\ now' = now + 1
    /\ UNCHANGED <<cfgvars, pc, epoch, step, step_counter, last_send_time,
                   last_pull_time, attrs, model, heap, base_weights,
                   aggregated_gradients, optimizer, training, pulls, exc,
                   push_log, pull_log, installed, grad_sum, clipped,
                   test_counter, pushed, total_examples, testvars, hashvars,
                   clipvars>>

\* ---- train: the statements before the epoch loop ----
\* TrainingLoop.train, lines 72-78
TrainingLoop_start ==
    /\ variant = "TrainingLoop"
    /\ last_send_time' = now
    /\ attrs' = attrs \cup {"last_send_time", "aggregated_gradients"}
    /\ aggregated_gradients' = zeros_like(model, heap).ag
    /\ heap' = zeros_like(model, heap).heap
    /\ UNCHANGED <<model, base_weights, optimizer, installed>>

\* DeltaLoop.train, lines 350-355
DeltaLoop_start ==
    /\ variant = "DeltaLoop"
    /\ last_send_time' = now
    /\ attrs' = attrs \cup {"last_send_time", "base_weights"}
    /\ base_weights' = snapshot(model, heap, base_weights).bw
    /\ heap' = snapshot(model, heap, base_weights).heap
    /\ UNCHANGED <<model, aggregated_gradients, optimizer, installed>>

\* MNISTTrain.train, lines 514-542
MNISTTrain_start ==
    /\ variant = "MNISTTrain"
    /\ last_send_time' = now
    /\ attrs' = attrs \cup {"last_send_time", "aggregated_gradients"}
    /\ model' = [gen |-> model.gen + 1, names |-> InitNames]
    /\ optimizer' = [cls |-> "SGD", lr |-> "0.1", gen |-> model.gen + 1, t |-> 0]
    /\ aggregated_gradients' = zeros_like(model', heap).ag
    /\ \E v \in InitValues :
        /\ installed' = [n \in InitNames |-> v]
        /\ heap' = zeros_like(model', install(heap, InitNames, v)).heap
    /\ UNCHANGED base_weights

\* MNISTDeltaTrain.train, lines 708-724
MNISTDeltaTrain_start ==
    /\ variant = "MNISTDeltaTrain"
    /\ attrs' = attrs \cup {"base_weights"}
    /\ model' = [gen |-> model.gen + 1, names |-> InitNames]
    /\ optimizer' = [cls |-> "SGD", lr |-> "0.1", gen |-> model.gen + 1, t |-> 0]
    /\ \E v \in InitValues :
        /\ installed' = [n \in InitNames |-> v]
        /\ base_weights' =
               snapshot(model', install(heap, InitNames, v), base_weights).bw
        /\ heap' =
               snapshot(model', install(heap, InitNames, v), base_weights).heap
    /\ UNCHANGED <<last_send_time, aggregated_gradients>>

Train ==
    /\ pc = "constructed"
    /\ \/ TrainingLoop_start
       \/ DeltaLoop_start
       \/ MNISTTrain_start
       \/ MNISTDeltaTrain_start
    /\ pc' = "epoch"
    \* lines 516 and 709
    /\ test_counter' = 0
    /\ UNCHANGED <<cfgvars, epoch, step, step_counter, now, last_pull_time,
                   training, pulls, exc, push_log, pull_log, grad_sum, clipped,
                   pushed, total_examples, testvars, hashvars,
                   clipvars>>

\* ---- the epoch loop ----
\* for epoch in range(epochs): the per-epoch statements before the batch loop
EpochStart ==
    /\ pc = "epoch"
    /\ epoch < epochs
    /\ step' = 0
    \* lines 82-83, 360-361, 546-547, 728-729
    /\ total_examples' = 0
    \* MNISTTrain.train has no pull check (lines 549-553 are commented out)
    /\ pc' = (IF variant = "MNISTTrain" THEN "fwd" ELSE "pull")
    /\ UNCHANGED <<cfgvars, epoch, step_counter, now, last_send_time,
                   last_pull_time, attrs, model, heap, base_weights,
                   aggregated_gradients, optimizer, training, pulls, exc,
                   push_log, pull_log, installed, grad_sum, clipped,
                   test_counter, pushed, testvars, hashvars,
                   clipvars>>

\* range(epochs) is exhausted: train falls off its end; DeltaLoop.train then
\* calls mlflow.en_run(), which module mlflow does not have (line 436)
Finish ==
    /\ pc = "epoch"
    /\ epoch = epochs
    /\ pc' = (IF variant = "DeltaLoop" THEN "raised" ELSE "returned")
    /\ exc' = (IF variant = "DeltaLoop"
               THEN [at |-> "exit", what |-> "AttributeError"] ELSE exc)
    /\ UNCHANGED <<cfgvars, epoch, step, step_counter, now, last_send_time,
                   last_pull_time, attrs, model, heap, base_weights,
                   aggregated_gradients, optimizer, training, pulls,
                   push_log, pull_log, installed, grad_sum, clipped,
                   test_counter, pushed, total_examples, testvars, hashvars,
                   clipvars>>

\* ---- the pull check ----
\* StalenessClock.is_pull_due over the timer state the object holds
is_pull_due ==
    /\ {"last_pull_time", "check_update_interval"} \subseteq attrs
    /\ now - last_pull_time >= check_update_interval

\* the condition under which the code polls the gateway: lines 86-87 and 364;
\* MNISTDeltaTrain.train polls on every batch (lines 732-734)
pull_gate ==
    IF variant \in RemoteSync
    THEN now - last_pull_time >= check_update_interval
    ELSE TRUE

\* time.sleep(10) of line 372, time.sleep(3) of line 735: the clock may advance
Sleeps == IF variant = "TrainingLoop" THEN {0} ELSE {d \in 0 .. 1 : now + d <= MaxTime}

reinit_on_replaced_model(v, g) ==
    [cls |-> "SGD", lr |-> "5e-5", gen |-> g - 1, t |-> 0]
\* the optimizer each variant builds after a pull: lines 97-99, 374-376, 740-742
reinit_optimizer(v, g) ==
    CASE v = "TrainingLoop" -> [cls |-> "SGD", lr |-> "5e-5", gen |-> g, t |-> 0]
      [] v = "DeltaLoop" -> [cls |-> "AdamW", lr |-> "5e-5", gen |-> g, t |-> 0]
      [] OTHER -> [cls |-> "SGD", lr |-> "0.001", gen |-> g, t |-> 0]

\* the gate is closed: no call of the gateway
PullNotDue ==
    /\ ~pull_gate
    /\ pull_log' = [polled |-> FALSE, due |-> is_pull_due, new |-> FALSE]
    /\ pc' = "fwd"
    /\ UNCHANGED <<now, last_pull_time, model, heap, base_weights, optimizer,
                   pulls, exc, installed>>

\* check_for_new_submissions returns False
PullNoNew ==
    /\ pull_gate
    /\ pull_log' = [polled |-> TRUE, due |-> is_pull_due, new |-> FALSE]
    \* line 381 is outside the inner if; line 100 is inside the if
    /\ last_pull_time' = (IF variant = "DeltaLoop" THEN now ELSE last_pull_time)
    /\ pc' = "fwd"
    /\ UNCHANGED <<now, model, heap, base_weights, optimizer, pulls, exc,
                   installed>>

\* check_for_new_submissions returns True: the model is replaced
PullNew ==
    /\ pull_gate
    /\ pulls < MaxPulls
    /\ \E names \in NameSets, v \in AveragedValues, d \in Sleeps :
        LET m == [gen |-> model.gen + 1, names |-> names]
            h == install(heap, names, v)
        IN  /\ now' = now + d
            /\ model' = m
            /\ optimizer' = reinit_optimizer(variant, m.gen)
            /\ installed' = [n \in names |-> v]
            /\ IF variant \in DeltaVariants
               THEN /\ base_weights' = rebase(m, h, base_weights).bw
                    /\ heap' = rebase(m, h, base_weights).heap
               ELSE /\ base_weights' = base_weights
                    /\ heap' = h
            /\ last_pull_time' = (IF variant \in RemoteSync THEN now' ELSE last_pull_time)
    /\ pulls' = pulls + 1
    /\ pull_log' = [polled |-> TRUE, due |-> is_pull_due, new |-> TRUE]
    /\ pc' = "fwd"
    /\ UNCHANGED exc

\* a call of the gateway raises: nothing in train catches it
GatewayCalls ==
    IF variant = "MNISTDeltaTrain"
    THEN {"check_for_new_submissions", "update_model"}
    ELSE {"check_for_new_submissions", "pull_latest_model", "update_model"}

PullRaises ==
    /\ pull_gate
    /\ \E call \in GatewayCalls :
        /\ exc' = [at |-> "pull", what |-> call]
        /\ pull_log' = [polled |-> TRUE, due |-> is_pull_due,
                        new |-> (call # "check_for_new_submissions")]
    /\ pc' = "raised"
    /\ UNCHANGED <<now, last_pull_time, model, heap, base_weights, optimizer,
                   pulls, installed>>

PullCheck ==
    /\ pc = "pull"
    /\ \/ PullNotDue
       \/ PullNoNew
       \/ PullNew
       \/ PullRaises
    /\ UNCHANGED <<cfgvars, epoch, step, step_counter, last_send_time, attrs,
                   aggregated_gradients, training, push_log, grad_sum, clipped,
                   test_counter, pushed, total_examples, testvars, hashvars,
                   clipvars>>

\* ---- one training step ----
Idx(n) == CHOOSE i \in 1 .. Len(NameOrder) : NameOrder[i] = n

\* A gradient tensor of one element, as normalize_gradients receives it: a
\* finite value, an infinity (v is its sign) or a NaN, the values a float32
\* backward pass can leave in param.grad.
Finite(x) == [k |-> "fin", v |-> x]
Inf == [k |-> "inf", v |-> 1]
NegInf == [k |-> "inf", v |-> -1]
NaN == [k |-> "nan", v |-> 0]
\* parameter.norm(2): the norm of an infinite tensor is +inf, of a NaN is NaN
norm(p) ==
    CASE p.k = "fin" -> Finite(Abs(p.v))
      [] p.k = "inf" -> Inf
      [] OTHER -> NaN

\* param_norm > threshold: every comparison with a NaN is False
gt(a, thr) ==
    CASE a.k = "fin" -> a.v > thr
      [] a.k = "inf" -> a.v > 0
      [] OTHER -> FALSE

\* parameter.data.mul_(threshold / param_norm): threshold / inf is 0.0, and
\* inf * 0.0 is NaN
mul_(p, thr, param_norm) ==
    CASE p.k = "nan" -> NaN
      [] param_norm.k = "inf" -> IF p.k = "inf" THEN NaN ELSE Finite(0)
      [] OTHER -> Finite((p.v * thr) \div param_norm.v)

\* lines 505-511 on a tensor
normalize_tensor(p, thr) ==
    LET param_norm == norm(p)
    IN  IF gt(param_norm, thr) THEN mul_(p, thr, param_norm) ELSE p

\* parameter.norm(2) > threshold: parameter.data.mul_(threshold / param_norm)
normalize_gradients(g, thr) ==
    normalize_tensor(Finite(g), thr).v

accumulate_overwrite(h, ag, names, g) ==
    Store(h, [a \in {ag[n] : n \in names} |-> g])
\* self.aggregated_gradients[name] += grad, for the given names
accumulate(h, ag, names, g) ==
    Store(h, [a \in {ag[n] : n \in names} |-> h[a] + g])

\* self.optimizer.step() with gradient g in every parameter: the optimizer
\* moves the parameters it was built on
optimizer_step(h, m, opt, g) ==
    IF opt.gen = m.gen
    THEN Store(h, [a \in {P(n) : n \in Trainable(m)} |-> h[a] - g])
    ELSE h

\* the optimizer after a call of step(): its state has one more update in it
stepped(opt) == [opt EXCEPT !.t = @ + 1]

\* param.grad of every parameter after self.optimizer.zero_grad(): None when
\* zero_grad sets to None (name absent), else a tensor of zeros
zero_grad(m) == IF set_to_none THEN EmptyMap ELSE [n \in m.names |-> 0]

\* lines 583-585: if param.grad is not None: param.grad = aggregated[name]
inject(grads, h, ag) == [n \in DOMAIN grads |-> h[ag[n]]]

\* param.grad of every parameter when the optimizer step of line 587 runs
injected_grads == inject(zero_grad(model), heap, aggregated_gradients)

\* self.optimizer.step() with the gradients `grads`: a parameter whose grad
\* is None is skipped
optimizer_step_grads(h, m, opt, grads) ==
    IF opt.gen = m.gen
    THEN Store(h, [a \in {P(n) : n \in DOMAIN grads} |-> h[a] - grads[a[2]]])
    ELSE h

\* lines 103-120
TrainingLoop_step(g) ==
    /\ variant = "TrainingLoop"
    /\ LET missing == Trainable(model) \ DOMAIN aggregated_gradients
           \* the names the loop of line 115 reaches before the first KeyError
           reached == {n \in Trainable(model) :
                          \A k \in missing : Idx(n) < Idx(k)}
       IN  IF missing = {}
           THEN /\ heap' = optimizer_step(
                               accumulate(heap, aggregated_gradients,
                                          Trainable(model), g),
                               model, optimizer, g)
                /\ optimizer' = stepped(optimizer)
                /\ pc' = "push"
                /\ exc' = exc
           ELSE /\ heap' = accumulate(heap, aggregated_gradients, reached, g)
                /\ optimizer' = optimizer
                /\ pc' = "raised"
                /\ exc' = [at |-> "accumulate", what |-> "KeyError"]
    /\ UNCHANGED clipped

ZeroDivisionError == [at |-> "average_loss", what |-> "ZeroDivisionError"]

\* average_loss = total_loss / total_examples, with the total_examples of
\* the state after the batch was counted: no guard in front of the division
average_loss(next) ==
    IF total_examples' = 0
    THEN pc' = "raised" /\ exc' = ZeroDivisionError
    ELSE pc' = next /\ exc' = exc

\* lines 383-395 and 749-759
Delta_step(g) ==
    /\ variant \in DeltaVariants
    /\ heap' = optimizer_step(heap, model, optimizer, g)
    /\ optimizer' = stepped(optimizer)
    \* line 759 divides after every batch; line 405 only at a push
    /\ IF variant = "MNISTDeltaTrain"
       THEN average_loss("eval")
       ELSE pc' = "push" /\ exc' = exc
    /\ UNCHANGED clipped

\* lines 556-566: clip, accumulate, zero_grad; no optimizer step
MNISTTrain_step(g) ==
    /\ variant = "MNISTTrain"
    /\ heap' = accumulate(heap, aggregated_gradients, Trainable(model),
                          normalize_gradients(g, ClipThreshold))
    /\ clipped' = (clipped \/ normalize_gradients(g, ClipThreshold) # g)
    \* line 571
    /\ average_loss("eval")
    /\ UNCHANGED optimizer

TrainStep ==
    /\ pc = "fwd"
    \* lines 113, 392, 569, 757
    /\ \E size \in batch_sizes : total_examples' = total_examples + size
    /\ \E g \in Grads :
        /\ \/ TrainingLoop_step(g)
           \/ Delta_step(g)
           \/ MNISTTrain_step(g)
        \* loss.backward() leaves g in the grad of every trainable parameter
        /\ grad_sum' = [n \in AllNames |->
                           IF variant \in AccumVariants /\ n \in Trainable(model)
                           THEN grad_sum[n] + g
                           ELSE grad_sum[n]]
    /\ push_log' = NoPush
    /\ UNCHANGED <<cfgvars, epoch, step, step_counter, now, last_send_time,
                   last_pull_time, attrs, model, base_weights,
                   aggregated_gradients, training, pulls,
                   pull_log, installed, test_counter, pushed, testvars, hashvars,
                   clipvars>>

\* ---- the evaluation checkpoint of the MNIST variants ----
\* the classes whose instances have a method test: MNISTTrain defines it
\* (line 629); MNISTDeltaTrain and its bases LocalTrainingLoop and
\* TrainingLoop do not
has_test(v) == v = "MNISTTrain"

\* lines 575-608: inject, step, test, and the return of line 604
MNISTTrain_checkpoint ==
    /\ variant = "MNISTTrain"
    /\ test_counter' = test_counter + 1
    /\ heap' = optimizer_step_grads(heap, model, optimizer, injected_grads)
    /\ optimizer' = stepped(optimizer)
    \* test() leaves the model in eval mode and line 606 is never reached
    /\ training' = FALSE
    /\ pc' = "returned"
    /\ UNCHANGED <<step_counter, exc>>

\* lines 763-766: self.test() is looked up on an object that has no test
MNISTDeltaTrain_checkpoint ==
    /\ variant = "MNISTDeltaTrain"
    /\ test_counter' = test_counter + 1
    /\ IF has_test(variant)
       THEN \* lines 766-785: test, then self.model.train()
            /\ training' = TRUE
            /\ step_counter' = step_counter + 1
            /\ pc' = "push"
            /\ exc' = exc
       ELSE /\ pc' = "raised"
            /\ exc' = [at |-> "test", what |-> "AttributeError"]
            /\ UNCHANGED <<training, step_counter>>
    /\ UNCHANGED <<heap, optimizer>>

NoCheckpoint ==
    /\ step_counter' = step_counter + 1
    /\ pc' = "push"
    /\ UNCHANGED <<heap, training, optimizer, exc, test_counter>>

EvalCheck ==
    /\ pc = "eval"
    /\ IF (step_counter + 1) % n_steps = 0
       THEN \/ MNISTTrain_checkpoint
            \/ MNISTDeltaTrain_checkpoint
       ELSE NoCheckpoint
    /\ UNCHANGED <<cfgvars, epoch, step, now, last_send_time, last_pull_time,
                   attrs, model, base_weights, aggregated_gradients,
                   pulls, push_log, pull_log, installed, grad_sum,
                   clipped, pushed, total_examples, testvars, hashvars,
                   clipvars>>

\* ---- the push check ----
\* time.time() - self.last_send_time >= self.send_interval
is_push_due == now - last_send_time >= send_interval

\* TrainingLoop.get_gradient_staleness, lines 166-171, inherited by every
\* variant: what a call returns in the current state
get_gradient_staleness ==
    IF last_send_time = 0 THEN 0 ELSE now - last_send_time

\* the snapshot exists and covers the trainable parameters of the live model
base_ok == "base_weights" \in attrs /\ Trainable(model) \subseteq DOMAIN base_weights

\* {name: param.data - self.base_weights[name] ... if param.requires_grad}
weight_diffs(m, h, bw) == [n \in Trainable(m) |-> h[P(n)] - h[bw[n]]]

\* the end of the loop body: the next batch, or the next epoch
NextBatch ==
    IF step + 1 < NumBatches
    THEN /\ step' = step + 1
         /\ epoch' = epoch
         /\ pc' = (IF variant \in DeltaVariants THEN "pull" ELSE "fwd")
    ELSE /\ step' = 0
         /\ epoch' = epoch + 1
         /\ pc' = "epoch"

PushNotDue ==
    /\ ~is_push_due
    /\ NextBatch
    /\ UNCHANGED <<last_send_time, exc, push_log>>

\* lines 130-131 and 404-405: the push is due and the division of the first
\* statement, which is outside the try, raises
PushDivides ==
    /\ variant \in RemoteSync
    /\ is_push_due
    /\ total_examples = 0
    /\ pc' = "raised"
    /\ exc' = ZeroDivisionError
    /\ UNCHANGED <<last_send_time, epoch, step, push_log>>

\* lines 130-157: the state_dict goes to gradients.pt; on an exception the
\* continue of line 156 skips line 157
TrainingLoop_push ==
    /\ variant = "TrainingLoop"
    /\ is_push_due
    /\ total_examples # 0
    /\ \E ok \in BOOLEAN :
        /\ push_log' = [outcome |-> IF ok THEN "ok" ELSE "failed",
                        artifact |-> "state_dict", file |-> "gradients.pt",
                        base_ok |-> TRUE]
        /\ last_send_time' = (IF ok THEN now ELSE last_send_time)
    /\ NextBatch
    /\ UNCHANGED exc

\* lines 404-435: the delta goes to weight_diff.pt; both paths set the timer
DeltaLoop_push ==
    /\ variant = "DeltaLoop"
    /\ is_push_due
    /\ total_examples # 0
    /\ \E ok \in BOOLEAN :
        push_log' = [outcome |-> IF ok /\ base_ok THEN "ok" ELSE "failed",
                     artifact |-> "weight_diffs", file |-> "weight_diff.pt",
                     base_ok |-> base_ok]
    /\ last_send_time' = now
    /\ NextBatch
    /\ UNCHANGED exc

\* lines 611-625: self.base_weights is assigned nowhere in MNISTTrain
MNISTTrain_push ==
    /\ variant = "MNISTTrain"
    /\ is_push_due
    /\ IF base_ok
       THEN /\ push_log' = [outcome |-> "ok", artifact |-> "weight_diffs",
                            file |-> "gradients.pt", base_ok |-> TRUE]
            /\ last_send_time' = now
            /\ NextBatch
            /\ UNCHANGED exc
       ELSE /\ push_log' = [outcome |-> "raised", artifact |-> "weight_diffs",
                            file |-> "none", base_ok |-> FALSE]
            /\ exc' = [at |-> "push", what |-> "AttributeError"]
            /\ pc' = "raised"
            /\ UNCHANGED <<last_send_time, epoch, step>>

\* lines 788-804: no try; store_gradients writes its default file name
MNISTDeltaTrain_push ==
    /\ variant = "MNISTDeltaTrain"
    /\ is_push_due
    /\ \E ok \in BOOLEAN :
        IF ok /\ base_ok
        THEN /\ push_log' = [outcome |-> "ok", artifact |-> "weight_diffs",
                             file |-> "gradients.pt", base_ok |-> TRUE]
             /\ last_send_time' = now
             /\ NextBatch
             /\ UNCHANGED exc
        ELSE /\ push_log' = [outcome |-> "raised", artifact |-> "weight_diffs",
                             file |-> "gradients.pt", base_ok |-> base_ok]
             /\ exc' = [at |-> "push",
                        what |-> IF base_ok THEN "store_gradients" ELSE "KeyError"]
             /\ pc' = "raised"
             /\ UNCHANGED <<last_send_time, epoch, step>>

PushCheck ==
    /\ pc = "push"
    /\ \/ PushNotDue
       \/ PushDivides
       \/ TrainingLoop_push
       \/ DeltaLoop_push
       \/ MNISTTrain_push
       \/ MNISTDeltaTrain_push
    /\ pull_log' = NoPull
    /\ pushed' = (pushed \/ push_log'.outcome = "ok")
    /\ UNCHANGED <<cfgvars, step_counter, now, last_pull_time, attrs, model,
                   heap, base_weights, aggregated_gradients, optimizer,
                   training, pulls, installed, grad_sum, clipped,
                   test_counter, total_examples, testvars, hashvars,
                   clipvars>>

Next ==
    \/ Tick
    \/ Train
    \/ EpochStart
    \/ PullCheck
    \/ TrainStep
    \/ EvalCheck
    \/ PushCheck
    \/ Finish

Spec == Init /\ [][Next]_vars

\* train over a data_loader that can yield batches without examples
EmptyBatchInit ==
    Constructed /\ TestIdle /\ ClipIdle /\ batch_sizes = BatchSizes

EmptyBatchSpec == EmptyBatchInit /\ [][Next]_vars

(***************************************************************************)
(* test, the evaluator of the MNIST variants, called on a constructed      *)
(* object over every test_loader within the bounds.                        *)
(***************************************************************************)
\* one held-out example as the model sees it: its cross-entropy loss and
\* whether the arg-max prediction equals the label
Losses == {1, 3}
Examples == [loss : Losses, correct : BOOLEAN]
\* a DataLoader yields non-empty batches
Batches == UNION {[1 .. k -> Examples] : k \in 1 .. MaxBatchSize}
Loaders == UNION {[1 .. k -> Batches] : k \in 1 .. MaxTestBatches}

RECURSIVE SumLoss(_)
SumLoss(batch) ==
    IF batch = <<>> THEN 0 ELSE Head(batch).loss + SumLoss(Tail(batch))

\* F.cross_entropy(outputs, labels): the default reduction is 'mean'
cross_entropy(batch) == Frac(SumLoss(batch), Len(batch))

\* (predicted == labels).sum().item()
count_correct(batch) == Cardinality({i \in 1 .. Len(batch) : batch[i].correct})

batch_size_one(batch) == 1
\* labels.size(0)
batch_size(batch) == Len(batch)

\* everything but pc, training and the state of the call
trainvars == <<cfgvars, epoch, step, step_counter, now, last_send_time,
               last_pull_time, attrs, model, heap, base_weights,
               aggregated_gradients, optimizer, pulls, exc, push_log,
               pull_log, installed, grad_sum, clipped, test_counter, pushed,
               total_examples, hashvars, clipvars>>

TestInit ==
    /\ Constructed
    /\ ClipIdle
    /\ has_test(variant)
    /\ epochs = 1 /\ n_steps = 1 /\ send_interval = 1 /\ set_to_none
    /\ batch_sizes = DataLoaderSizes
    /\ test_loader \in Loaders
    /\ batch_idx = 0
    /\ test_loss = Zero
    /\ correct_predictions = 0
    /\ total_test_samples = 0
    /\ test_result = <<>>

\* lines 630-633: self.model.eval() and the three accumulators
TestCall ==
    /\ pc = "constructed"
    /\ training' = FALSE
    /\ test_loss' = Zero
    /\ correct_predictions' = 0
    /\ total_test_samples' = 0
    /\ batch_idx' = 0
    /\ pc' = "test"
    /\ UNCHANGED <<trainvars, test_loader, test_result>>

\* lines 636-643: one batch of the loop
TestBatch ==
    /\ pc = "test"
    /\ batch_idx < Len(test_loader)
    /\ LET batch == test_loader[batch_idx + 1]
       IN  /\ test_loss' = RAdd(test_loss, cross_entropy(batch))
           /\ correct_predictions' = correct_predictions + count_correct(batch)
           /\ total_test_samples' = total_test_samples + batch_size(batch)
    /\ batch_idx' = batch_idx + 1
    /\ UNCHANGED <<trainvars, pc, training, test_loader, test_result>>

\* lines 645-647: the loader is exhausted
TestReturn ==
    /\ pc = "test"
    /\ batch_idx = Len(test_loader)
    /\ test_result' = <<RDiv(test_loss, total_test_samples),
                        Frac(correct_predictions, total_test_samples)>>
    /\ pc' = "tested"
    /\ UNCHANGED <<trainvars, training, test_loader, batch_idx, test_loss,
                   correct_predictions, total_test_samples>>

TestNext ==
    \/ TestCall
    \/ TestBatch
    \/ TestReturn

TestSpec == TestInit /\ [][TestNext]_vars

(***************************************************************************)
(* calculate_model_hash, called on a MNISTDeltaTrain object between        *)
(* optimizer steps and model replacements.                                 *)
(***************************************************************************)
\* name.encode("utf-8") of the parameter names of the model
utf8(n) == IF n = "w" THEN <<119>> ELSE <<98>>

\* param.data.cpu().numpy().tobytes(): the value, in a fixed width
tobytes(v) == <<v % 256>>

name_with_id(m, n) == utf8(n) \o <<m.gen>>
\* the bytes of the first update of a parameter: its name
name_bytes(m, n) == utf8(n)

\* the bytes the loop of lines 702-704 feeds to model_hash.update, from the
\* i-th name of named_parameters() on
RECURSIVE updates(_, _, _)
updates(m, h, i) ==
    IF i > Len(NameOrder) THEN <<>>
    ELSE (IF NameOrder[i] \in m.names
          THEN name_bytes(m, NameOrder[i]) \o tobytes(h[P(NameOrder[i])])
          ELSE <<>>) \o updates(m, h, i + 1)

\* hashlib.sha256 over the bytes: a digest of fixed size, so not injective
RECURSIVE sha256(_)
sha256(bytes) ==
    IF bytes = <<>> THEN <<7>>
    ELSE <<(sha256(SubSeq(bytes, 1, Len(bytes) - 1))[1] * 31
               + bytes[Len(bytes)]) % 65521>>

\* what a call of calculate_model_hash returns in the current state
calculate_model_hash == sha256(updates(model, heap, 1))

HashInit ==
    /\ Constructed
    /\ TestIdle
    /\ ClipIdle
    /\ variant = "MNISTDeltaTrain"
    /\ epochs = 1 /\ n_steps = 1 /\ send_interval = 1
    /\ batch_sizes = DataLoaderSizes

\* lines 700-705: the call reads the parameters and writes nothing
HashCall ==
    /\ model_hash' = calculate_model_hash
    /\ hashed' = [gen |-> model.gen, params |-> ParamValues]
    /\ pc' = "hashed"
    /\ UNCHANGED <<cfgvars, epoch, step, step_counter, now, last_send_time,
                   last_pull_time, attrs, model, heap, base_weights,
                   aggregated_gradients, optimizer, training, pulls, exc,
                   push_log, pull_log, installed, grad_sum, clipped,
                   test_counter, pushed, total_examples, testvars, clipvars>>

\* between two calls an optimizer step modifies the parameters
HashModify ==
    /\ optimizer.t < NumBatches
    /\ \E g \in Grads : heap' = optimizer_step(heap, model, optimizer, g)
    /\ optimizer' = stepped(optimizer)
    /\ pc' = "constructed"
    /\ UNCHANGED <<cfgvars, epoch, step, step_counter, now, last_send_time,
                   last_pull_time, attrs, model, base_weights,
                   aggregated_gradients, training, pulls, exc,
                   push_log, pull_log, installed, grad_sum, clipped,
                   test_counter, pushed, total_examples, testvars, hashvars,
                   clipvars>>

\* between two calls update_model replaces the model by another object
HashReplace ==
    /\ pulls <= MaxPulls
    /\ \E names \in NameSets, v \in AveragedValues :
        /\ model' = [gen |-> model.gen + 1, names |-> names]
        /\ heap' = install(heap, names, v)
        /\ installed' = [n \in names |-> v]
    /\ optimizer' = reinit_optimizer(variant, model.gen + 1)
    /\ pulls' = pulls + 1
    /\ pc' = "constructed"
    /\ UNCHANGED <<cfgvars, epoch, step, step_counter, now, last_send_time,
                   last_pull_time, attrs, base_weights,
                   aggregated_gradients, training, exc,
                   push_log, pull_log, grad_sum, clipped,
                   test_counter, pushed, total_examples, testvars, hashvars,
                   clipvars>>

HashNext ==
    \/ HashCall
    \/ HashModify
    \/ HashReplace

HashSpec == HashInit /\ [][HashNext]_vars

(***************************************************************************)
(* normalize_gradients on its own: a static method, called on one          *)
(* gradient tensor and a positive threshold.                               *)
(***************************************************************************)
Tensors == {Finite(x) : x \in -MaxGradient .. MaxGradient} \cup {Inf, NegInf, NaN}
Thresholds == 1 .. MaxThreshold

ClipInit ==
    /\ Constructed
    /\ TestIdle
    /\ variant = "MNISTTrain"
    /\ epochs = 1 /\ n_steps = 1 /\ send_interval = 1
    /\ set_to_none
    /\ batch_sizes = DataLoaderSizes
    /\ parameter \in Tensors
    /\ threshold \in Thresholds
    /\ normalized = NoTensor

\* lines 505-511
ClipCall ==
    /\ pc = "constructed"
    /\ normalized' = normalize_tensor(parameter, threshold)
    /\ pc' = "normalized"
    /\ UNCHANGED <<cfgvars, epoch, step, step_counter, now, last_send_time,
                   last_pull_time, attrs, model, heap, base_weights,
                   aggregated_gradients, optimizer, training, pulls, exc,
                   push_log, pull_log, installed, grad_sum, clipped,
                   test_counter, pushed, total_examples, testvars, hashvars,
                   parameter, threshold>>

ClipNext == ClipCall

ClipSpec == ClipInit /\ [][ClipNext]_vars

(***************************************************************************)
(* Claims.                                                                 *)
(***************************************************************************)

\* a push check that found the push due and made the attempt
PushAttempt ==
    pc = "push" /\ pc' # "push" /\ is_push_due /\ exc'.at # "average_loss"

\* C1: in TrainingLoop.train and DeltaLoop.train every push attempt, failed
\* or not, leaves last_send_time at the time of the attempt, so the push is
\* not due again right after it.
C1_PushAttemptSetsLastSendTime ==
    [][(variant \in RemoteSync /\ PushAttempt) =>
           (last_send_time' = now' /\ ~is_push_due')]_vars

\* C2: no exception raised while the push artifact is computed, written or
\* published leaves train.
C2_PushFailureNeverLeavesTrain == ~(pc = "raised" /\ exc.at = "push")

\* C3: in TrainingLoop.train and DeltaLoop.train every pull check that finds
\* the pull due and polls the gateway sets last_pull_time, with or without
\* a new submission.
C3_PullAttemptSetsLastPullTime ==
    [][(variant \in RemoteSync /\ pc = "pull" /\ pull_gate /\ pc' = "fwd") =>
           last_pull_time' = now']_vars

\* C4: a gateway call that raises during the pull check does not end train.
C4_PullFailureNeverLeavesTrain == ~(pc = "raised" /\ exc.at = "pull")

\* C5: the gateway is polled, and the model replaced, only when
\* now - last_pull_time >= check_update_interval.
C5_PollOnlyWhenPullDue ==
    (pull_log.polled \/ pull_log.new) => pull_log.due

\* C6: in the delta variants the baseline is the snapshot of the most recently
\* installed model, holding the values that model had when it was installed:
\* at every state of train, and so at every push.
C6_BaselineIsInstalledModel ==
    (variant \in DeltaVariants /\ pc # "constructed") =>
        /\ "base_weights" \in attrs
        /\ DOMAIN base_weights = model.names
        /\ BaseValues = installed

\* C6 witness: a delta was pushed after a pull replaced the model and an
\* optimizer step moved its parameters.
C6_Witness ==
    /\ variant \in DeltaVariants
    /\ pulls > 0
    /\ push_log.outcome = "ok"
    /\ BaseValues = installed
    /\ ParamValues # installed

\* C7: whenever a weight delta is computed at a push, the baseline snapshot
\* exists and has an entry for every trainable parameter of the live model.
C7_DeltaHasBaseline == push_log.artifact = "weight_diffs" => push_log.base_ok

\* C8: only a rebase (the start of train, a pull that replaces the model)
\* changes the values of the baseline snapshot; optimizer steps do not.
C8_SnapshotNotAliased ==
    [][(variant \in DeltaVariants /\ pc # "constructed" /\ pulls' = pulls) =>
           BaseValues' = BaseValues]_vars

\* C8 witness: optimizer steps moved a parameter away from the snapshot taken
\* at the last rebase, and the snapshot still holds the captured value.
C8_Witness ==
    /\ variant \in DeltaVariants
    /\ "base_weights" \in attrs
    /\ pc = "push"
    /\ step > 0
    /\ \A n \in model.names :
           /\ heap[base_weights[n]] = installed[n]
           /\ heap[P(n)] < heap[base_weights[n]] - 1

\* C9: in TrainingLoop.train and MNISTTrain.train the artifact of a push is
\* the accumulated gradient mapping.
C9_AccumVariantsPublishGradients ==
    (variant \in AccumVariants /\ push_log.outcome # "none") =>
        push_log.artifact = "aggregated_gradients"

\* C10: in TrainingLoop.train and MNISTTrain.train, as long as no gradient was
\* clipped, after every completed step the accumulator of each parameter is
\* the sum of the gradients backward produced for it since train began;
\* optimizer steps, zero_grad and pushes leave it alone.
C10_AccumulatorIsGradientSum ==
    (variant \in AccumVariants /\ pc # "constructed" /\ ~clipped
         /\ exc.at # "accumulate") =>
        /\ \A n \in DOMAIN aggregated_gradients : AggValues[n] = grad_sum[n]
        \* every trainable parameter of the model train began with has one
        /\ pulls = 0 => Trainable(model) \subseteq DOMAIN aggregated_gradients

\* C10 witness: every step of the longest run had gradient 1 and a push was
\* made on the way; the accumulator holds the number of steps.
C10_Witness ==
    /\ variant = "TrainingLoop"
    /\ pc = "returned"
    /\ epochs = MaxEpochs
    /\ last_send_time > StartTime
    /\ \A n \in DOMAIN aggregated_gradients :
           AggValues[n] = MaxEpochs * NumBatches

\* C11: in MNISTTrain.train, at every step where step_counter + 1 is a
\* multiple of n_steps, the gradient slots of the live model hold the
\* accumulated gradient when the optimizer step of line 587 runs, and that
\* step moves every parameter by the accumulated gradient.
C11_InjectedStepUsesAccumulator ==
    [][(variant = "MNISTTrain" /\ pc = "eval"
            /\ (step_counter + 1) % n_steps = 0) =>
           /\ injected_grads = AggValues
           /\ \A n \in Trainable(model) :
                  heap'[P(n)] = heap[P(n)] - AggValues[n]]_vars

\* C12: every pull that replaces the model leaves a freshly constructed
\* optimizer bound to the parameters of the new model, and every optimizer
\* step made after a pull is made by an optimizer bound to the live model,
\* whose state counts only the steps made since it was built.
C12_OptimizerRebuiltOnPull ==
    [][/\ pulls' > pulls =>
              (optimizer'.gen = model'.gen /\ optimizer'.t = 0)
       /\ (pulls > 0 /\ optimizer' # optimizer /\ pulls' = pulls) =>
              (optimizer.gen = model.gen /\ optimizer' = stepped(optimizer))]_vars

\* C12 witness: in the second epoch a pull replaced the model after the old
\* optimizer had made steps, and the new optimizer made its first step, on
\* the new model.
C12_Witness ==
    /\ variant = "TrainingLoop"
    /\ pulls > 0
    /\ epoch = 1 /\ step = 0 /\ pc = "push"
    /\ optimizer.t = 1
    /\ optimizer.gen = model.gen
    /\ \A n \in model.names : heap[P(n)] < installed[n]

\* C13: train is left only by an exception or when range(epochs) is
\* exhausted: it never returns while an epoch or a batch remains.
C13_ReturnsOnlyWhenEpochsExhausted ==
    pc = "returned" => (epoch = epochs /\ step = 0)

\* C14: in the classification variants the evaluation runs after every step
\* whose 1-based global index is a multiple of n_steps and after no other
\* step, training goes on after it, and a run of epochs * NumBatches steps
\* makes (epochs * NumBatches) \div n_steps evaluations.
C14_EvaluationEveryNSteps ==
    variant \in MNISTVariants =>
        \* between two steps: one evaluation per n_steps completed steps
        /\ pc = "push" => test_counter = step_counter \div n_steps
        \* the evaluation does not end train
        /\ exc.at # "test"
        /\ pc = "returned" =>
               test_counter = (epochs * NumBatches) \div n_steps

\* C15: test puts the model in evaluation mode while it runs and has put it
\* back in training mode when it returns: right after every call of test
\* the model is in training mode.
C15_TestRestoresTrainingMode == pc = "tested" => training

\* the held-out set as one sequence of examples, whatever the batching
RECURSIVE Flatten(_)
Flatten(loader) ==
    IF loader = <<>> THEN <<>> ELSE Head(loader) \o Flatten(Tail(loader))

\* C16: the loss test returns is the mean loss per example of the held-out
\* set: the sum of the losses of all examples of all batches over the number
\* of examples, whatever the number and the sizes of the batches.
C16_LossIsMeanPerExample ==
    pc = "tested" =>
        REq(test_result[1], Frac(SumLoss(Flatten(test_loader)),
                                 Len(Flatten(test_loader))))

\* C17: the accuracy test returns is the number of correct predictions of
\* all batches over the number of examples of all batches, however the
\* examples are split into batches.
C17_AccuracyIsCorrectOverTotal ==
    pc = "tested" =>
        REq(test_result[2], Frac(count_correct(Flatten(test_loader)),
                                 Len(Flatten(test_loader))))

\* C17 witness: two batches of different sizes, 2 of the 3 examples
\* predicted correctly, one miss in the larger batch: test returned 2/3.
C17_Witness ==
    /\ pc = "tested"
    /\ Len(test_loader) = 2
    /\ Len(test_loader[1]) = 1 /\ Len(test_loader[2]) = MaxBatchSize
    /\ count_correct(test_loader[1]) = 1
    /\ count_correct(test_loader[2]) = MaxBatchSize - 1
    /\ REq(test_result[2], Frac(MaxBatchSize, MaxBatchSize + 1))

\* C18: once train has begun, a call of get_gradient_staleness returns zero
\* as long as no push of the run has been published, and now - last_send_time
\* after that.
C18_StalenessZeroUntilFirstPush ==
    pc # "constructed" =>
        get_gradient_staleness = (IF pushed THEN now - last_send_time ELSE 0)

\* C19: the push check runs in every step: a step that has begun reaches the
\* push check unless an exception leaves train; the check makes a push
\* attempt, in that step, exactly when now - last_send_time >= send_interval;
\* and a push that is due stays due until an attempt is made.
C19_PushCheckedEveryStep ==
    [][/\ pc \in {"fwd", "eval"} => pc' \in {"fwd", "eval", "push", "raised"}
       /\ (pc = "push" /\ pc' # "push") =>
              (is_push_due <=> push_log'.outcome # "none")
       /\ (pc # "constructed" /\ is_push_due /\ ~PushAttempt) =>
              is_push_due']_vars

\* C20: every optimizer that has made a step during train was built with the
\* configured learning_rate as its step size: the one train starts with and
\* every one built after a pull.
C20_StepsUseConfiguredLearningRate ==
    optimizer.t > 0 => optimizer.lr = "learning_rate"

\* C21: where train computes the average loss with total_examples = 0, the
\* computation is skipped: no ZeroDivisionError leaves train.
C21_AverageLossNeverDividesByZero ==
    ~(pc = "raised" /\ exc = ZeroDivisionError)

\* C22: an artifact written at a push is stored under the file name of its
\* mode: an accumulated gradient under gradients.pt, a weight delta under
\* weight_diff.pt and never under gradients.pt.
C22_ArtifactFileMatchesMode ==
    push_log.outcome = "ok" =>
        /\ push_log.artifact = "aggregated_gradients" =>
               push_log.file = "gradients.pt"
        /\ push_log.artifact = "weight_diffs" =>
               push_log.file = "weight_diff.pt"

\* C23: right after a baseline snapshot is taken, at the start of train or
\* after a pull replaced the model, the snapshot covers every trainable
\* parameter and the delta current - baseline is zero for each of them.
C23_DeltaZeroAfterSnapshot ==
    [][(variant \in DeltaVariants /\ (pc = "constructed" \/ pulls' > pulls)) =>
           /\ base_ok'
           /\ \A n \in Trainable(model') :
                  weight_diffs(model', heap', base_weights')[n] = 0]_vars

\* C23 witness: a pull has just installed an averaged model with non-zero
\* weights and a parameter the first model did not have; the new snapshot
\* makes the delta zero.
C23_Witness ==
    /\ variant \in DeltaVariants
    /\ pulls > 0
    /\ pc = "fwd"
    /\ pull_log.new
    /\ model.names = AllNames
    /\ \A n \in Trainable(model) :
           /\ heap[P(n)] > 0
           /\ weight_diffs(model, heap, base_weights)[n] = 0

norm_at_most(p, thr) == norm(p).k = "fin" /\ norm(p).v <= thr

\* C25 as stated: normalize_gradients returns a gradient whose L2 norm is at
\* most the threshold for every input, and returns its input unmodified when
\* the input's norm is already at or below the threshold.
C25_NormAtMostThreshold ==
    pc = "normalized" =>
        /\ norm_at_most(normalized, threshold)
        /\ norm_at_most(parameter, threshold) => normalized = parameter

\* On the inputs whose L2 norm is finite the bound and the identity hold.
FiniteNormAtMostThreshold ==
    (pc = "normalized" /\ norm(parameter).k = "fin") =>
        /\ norm_at_most(normalized, threshold)
        /\ norm_at_most(parameter, threshold) => normalized = parameter

\* C26: in TrainingLoop.train, after any sequence of steps and pulls,
\* aggregated_gradients has an entry for every trainable parameter of the live
\* model, and the accumulation of a step never fails on a parameter name.
C26_AccumulatorCoversLiveModel ==
    (variant = "TrainingLoop" /\ pc # "constructed") =>
        /\ Trainable(model) \subseteq DOMAIN aggregated_gradients
        /\ ~(pc = "raised" /\ exc = [at |-> "accumulate", what |-> "KeyError"])

\* C27: with a gateway whose calls all return and a store that can be
\* written, train of no variant ends in an exception, already in the runs
\* without a model replacement: the only ways such a run raises are a gateway
\* call of the pull and the write of store_gradients.
C27_TrainReturnsNormally ==
    (pc = "raised" /\ pulls = 0) =>
        \/ exc.at = "pull"
        \/ exc = [at |-> "push", what |-> "store_gradients"]

====
